---------------------------- MODULE Spec2Model ----------------------------
(***************************************************************************)
(* Transaction-ID admission ledger and IP access gate of the GitHubStore   *)
(* backend (src/githubstore/backend/server.js).                            *)
(*                                                                         *)
(* Strings that the code inspects character by character (transaction     *)
(* identifiers) are sequences of one-character strings.  JavaScript values *)
(* that the code tests for truthiness or type are records [t, s, n].       *)
(* Node runs every handler to its first await without interleaving, so one *)
(* action is the synchronous part of a handler (the IP middleware          *)
(* included) and a second action is the continuation after the fetch.      *)
(***************************************************************************)
EXTENDS Integers, Sequences, FiniteSets, Bags, TLC

(***************************************************************************)
(* Bounds of the model.                                                    *)
(***************************************************************************)
\* most identifiers the ledger may hold before admissions are cut off
MaxLedger == 2
\* most outbound fetches that may be awaiting their response at once
MaxInFlight == 2
\* most notifications the key-less endpoints may dispatch
MaxGeneric == 1

(***************************************************************************)
(* Characters.                                                             *)
(***************************************************************************)
Lower == {"a","b","c","d","e","f","g","h","i","j","k","l","m",
          "n","o","p","q","r","s","t","u","v","w","x","y","z"}
Upper == {"A","B","C","D","E","F","G","H","I","J","K","L","M",
          "N","O","P","Q","R","S","T","U","V","W","X","Y","Z"}
Digit == {"0","1","2","3","4","5","6","7","8","9"}
\* the class [a-zA-Z0-9_-] of the regular expression
IdChar == Lower \cup Upper \cup Digit \cup {"_", "-"}
\* what String.prototype.trim strips (the members the inputs use)
WhiteSpace == {" ", "\t", "\n", "\r"}

Rep(c, n) == [i \in 1..n |-> c]

(***************************************************************************)
(* JavaScript values: undefined, strings and numbers.                      *)
(***************************************************************************)
Undefined == [t |-> "undefined", s |-> <<>>, n |-> 0]
Str(s) == [t |-> "string", s |-> s, n |-> 0]
Num(n) == [t |-> "number", s |-> <<>>, n |-> n]

\* ToBoolean, as applied by `!x`
Truthy(v) ==
  CASE v.t = "string" -> v.s # <<>>
    [] v.t = "number" -> v.n # 0
    [] OTHER -> FALSE

RECURSIVE TrimStart(_)
TrimStart(s) ==
  IF s # <<>> /\ Head(s) \in WhiteSpace THEN TrimStart(Tail(s)) ELSE s

RECURSIVE TrimEnd(_)
TrimEnd(s) ==
  IF s # <<>> /\ s[Len(s)] \in WhiteSpace
  THEN TrimEnd(SubSeq(s, 1, Len(s) - 1))
  ELSE s

\* String.prototype.trim
Trim(s) == TrimEnd(TrimStart(s))

\* cleanId.includes(' ')
IncludesSpace(s) == \E i \in 1..Len(s) : s[i] = " "

\* /^[a-zA-Z0-9_-]+$/.test(cleanId)
MatchesIdRegex(s) == Len(s) >= 1 /\ \A i \in 1..Len(s) : s[i] \in IdChar

(***************************************************************************)
(* validateTransactionId                                                   *)
(***************************************************************************)
MinIdLength == 8
MaxIdLength == 100

ErrNotString   == "Transaction ID must be a non-empty string"
ErrTooShort    == "Transaction ID must be at least 8 characters long"
ErrTooLong     == "Transaction ID must be less than 100 characters"
ErrSpaces      == "Transaction ID cannot contain spaces"
ErrCharset     == "Transaction ID can only contain letters, numbers, hyphens, and underscores"
ErrAlreadyUsed == "Transaction ID has already been used"

Invalid(e) == [valid |-> FALSE, error |-> e, cleanId |-> <<>>]

\* variant: the value is trimmed before it is tested for emptiness
validateTransactionId_TrimFirst(transactionId, used) ==
  IF transactionId.t # "string" \/ Len(Trim(transactionId.s)) = 0
  THEN Invalid(ErrNotString)
  ELSE LET cleanId == Trim(transactionId.s) IN
    IF Len(cleanId) < MinIdLength THEN Invalid(ErrTooShort)
    ELSE IF Len(cleanId) > MaxIdLength THEN Invalid(ErrTooLong)
    ELSE IF IncludesSpace(cleanId) THEN Invalid(ErrSpaces)
    ELSE IF ~MatchesIdRegex(cleanId) THEN Invalid(ErrCharset)
    ELSE IF cleanId \in used THEN Invalid(ErrAlreadyUsed)
    ELSE [valid |-> TRUE, error |-> "", cleanId |-> cleanId]

\* variant: white space is removed at the start only
validateTransactionId_TrimStartOnly(transactionId, used) ==
  IF ~Truthy(transactionId) \/ transactionId.t # "string"
  THEN Invalid(ErrNotString)
  ELSE LET cleanId == TrimStart(transactionId.s) IN
    IF Len(cleanId) < MinIdLength THEN Invalid(ErrTooShort)
    ELSE IF Len(cleanId) > MaxIdLength THEN Invalid(ErrTooLong)
    ELSE IF IncludesSpace(cleanId) THEN Invalid(ErrSpaces)
    ELSE IF ~MatchesIdRegex(cleanId) THEN Invalid(ErrCharset)
    ELSE IF cleanId \in used THEN Invalid(ErrAlreadyUsed)
    ELSE [valid |-> TRUE, error |-> "", cleanId |-> cleanId]

\* variant: the ledger is never consulted
validateTransactionId_NoLedger(transactionId, used) ==
  IF ~Truthy(transactionId) \/ transactionId.t # "string"
  THEN Invalid(ErrNotString)
  ELSE LET cleanId == Trim(transactionId.s) IN
    IF Len(cleanId) < MinIdLength THEN Invalid(ErrTooShort)
    ELSE IF Len(cleanId) > MaxIdLength THEN Invalid(ErrTooLong)
    ELSE IF IncludesSpace(cleanId) THEN Invalid(ErrSpaces)
    ELSE IF ~MatchesIdRegex(cleanId) THEN Invalid(ErrCharset)
    ELSE [valid |-> TRUE, error |-> "", cleanId |-> cleanId]

\* variant: the ledger is consulted with the untrimmed identifier
validateTransactionId_RawLookup(transactionId, used) ==
  IF ~Truthy(transactionId) \/ transactionId.t # "string"
  THEN Invalid(ErrNotString)
  ELSE LET cleanId == Trim(transactionId.s) IN
    IF Len(cleanId) < MinIdLength THEN Invalid(ErrTooShort)
    ELSE IF Len(cleanId) > MaxIdLength THEN Invalid(ErrTooLong)
    ELSE IF IncludesSpace(cleanId) THEN Invalid(ErrSpaces)
    ELSE IF ~MatchesIdRegex(cleanId) THEN Invalid(ErrCharset)
    ELSE IF transactionId.s \in used THEN Invalid(ErrAlreadyUsed)
    ELSE [valid |-> TRUE, error |-> "", cleanId |-> cleanId]

\* variant: the characters are tested before the lengths
validateTransactionId_CharsetFirst(transactionId, used) ==
  IF ~Truthy(transactionId) \/ transactionId.t # "string"
  THEN Invalid(ErrNotString)
  ELSE LET cleanId == Trim(transactionId.s) IN
    IF IncludesSpace(cleanId) THEN Invalid(ErrSpaces)
    ELSE IF ~MatchesIdRegex(cleanId) THEN Invalid(ErrCharset)
    ELSE IF Len(cleanId) < MinIdLength THEN Invalid(ErrTooShort)
    ELSE IF Len(cleanId) > MaxIdLength THEN Invalid(ErrTooLong)
    ELSE IF cleanId \in used THEN Invalid(ErrAlreadyUsed)
    ELSE [valid |-> TRUE, error |-> "", cleanId |-> cleanId]

\* variant: the test for spaces is missing
validateTransactionId_NoSpaceCheck(transactionId, used) ==
  IF ~Truthy(transactionId) \/ transactionId.t # "string"
  THEN Invalid(ErrNotString)
  ELSE LET cleanId == Trim(transactionId.s) IN
    IF Len(cleanId) < MinIdLength THEN Invalid(ErrTooShort)
    ELSE IF Len(cleanId) > MaxIdLength THEN Invalid(ErrTooLong)
    ELSE IF ~MatchesIdRegex(cleanId) THEN Invalid(ErrCharset)
    ELSE IF cleanId \in used THEN Invalid(ErrAlreadyUsed)
    ELSE [valid |-> TRUE, error |-> "", cleanId |-> cleanId]

\* variant: the test for spaces comes before the lengths
validateTransactionId_SpacesFirst(transactionId, used) ==
  IF ~Truthy(transactionId) \/ transactionId.t # "string"
  THEN Invalid(ErrNotString)
  ELSE LET cleanId == Trim(transactionId.s) IN
    IF IncludesSpace(cleanId) THEN Invalid(ErrSpaces)
    ELSE IF Len(cleanId) < MinIdLength THEN Invalid(ErrTooShort)
    ELSE IF Len(cleanId) > MaxIdLength THEN Invalid(ErrTooLong)
    ELSE IF ~MatchesIdRegex(cleanId) THEN Invalid(ErrCharset)
    ELSE IF cleanId \in used THEN Invalid(ErrAlreadyUsed)
    ELSE [valid |-> TRUE, error |-> "", cleanId |-> cleanId]

\* variant: 'less than 100 characters' taken literally
validateTransactionId_Below100(transactionId, used) ==
  IF ~Truthy(transactionId) \/ transactionId.t # "string"
  THEN Invalid(ErrNotString)
  ELSE LET cleanId == Trim(transactionId.s) IN
    IF Len(cleanId) < MinIdLength THEN Invalid(ErrTooShort)
    ELSE IF Len(cleanId) >= MaxIdLength THEN Invalid(ErrTooLong)
    ELSE IF IncludesSpace(cleanId) THEN Invalid(ErrSpaces)
    ELSE IF ~MatchesIdRegex(cleanId) THEN Invalid(ErrCharset)
    ELSE IF cleanId \in used THEN Invalid(ErrAlreadyUsed)
    ELSE [valid |-> TRUE, error |-> "", cleanId |-> cleanId]

validateTransactionId(transactionId, used) ==
  IF ~Truthy(transactionId) \/ transactionId.t # "string"
  THEN Invalid(ErrNotString)
  ELSE LET cleanId == Trim(transactionId.s) IN
    IF Len(cleanId) < MinIdLength THEN Invalid(ErrTooShort)
    ELSE IF Len(cleanId) > MaxIdLength THEN Invalid(ErrTooLong)
    ELSE IF IncludesSpace(cleanId) THEN Invalid(ErrSpaces)
    ELSE IF ~MatchesIdRegex(cleanId) THEN Invalid(ErrCharset)
    ELSE IF cleanId \in used THEN Invalid(ErrAlreadyUsed)
    ELSE [valid |-> TRUE, error |-> "", cleanId |-> cleanId]

(***************************************************************************)
(* A JavaScript Set of strings, which keeps insertion order: a sequence    *)
(* without repetitions.  (usedTransactionIds is a Set too, but the code    *)
(* only calls has and add on it, so its order is never read and it is a    *)
(* plain set below.)                                                       *)
(***************************************************************************)
Range(q) == {q[i] : i \in 1..Len(q)}

SetHas(q, x) == x \in Range(q)

\* variant: add appends without looking for the value
SetAdd_Append(q, x) == Append(q, x)

SetAdd(q, x) == IF SetHas(q, x) THEN q ELSE Append(q, x)

SetDelete(q, x) == LET Keep(e) == e # x IN SelectSeq(q, Keep)

(***************************************************************************)
(* ipManager: the methods of the policy object, on a policy record         *)
(* [blockedIPs, allowedIPs, whitelistMode].                                *)
(***************************************************************************)
\* variant: blocking empties the allow-set
blockIP_ClearAllowed(p, ip) ==
  [p EXCEPT !.blockedIPs = SetAdd(@, ip), !.allowedIPs = <<>>]

\* variant: blocking leaves the address in the allow-set
blockIP_NoEvict(p, ip) ==
  [p EXCEPT !.blockedIPs = SetAdd(@, ip)]

blockIP(p, ip) ==
  [p EXCEPT !.blockedIPs = SetAdd(@, ip), !.allowedIPs = SetDelete(@, ip)]

allowIP(p, ip) ==
  [p EXCEPT !.allowedIPs = SetAdd(@, ip), !.blockedIPs = SetDelete(@, ip)]

removeIP(p, ip) ==
  [p EXCEPT !.blockedIPs = SetDelete(@, ip), !.allowedIPs = SetDelete(@, ip)]

\* variant: a blocked address is refused in whitelist mode too
isIPAllowed_BlockedWins(p, clientIP) ==
  IF p.whitelistMode
  THEN /\ SetHas(p.allowedIPs, clientIP) \/ Len(p.allowedIPs) = 0
       /\ ~SetHas(p.blockedIPs, clientIP)
  ELSE ~SetHas(p.blockedIPs, clientIP)

\* variant: an empty allow-list admits nobody
isIPAllowed_FailClosed(p, clientIP) ==
  IF p.whitelistMode
  THEN SetHas(p.allowedIPs, clientIP)
  ELSE ~SetHas(p.blockedIPs, clientIP)

\* variant: the blacklist branch consults the allow-set
isIPAllowed_WrongSet(p, clientIP) ==
  IF p.whitelistMode
  THEN SetHas(p.allowedIPs, clientIP) \/ Len(p.allowedIPs) = 0
  ELSE ~SetHas(p.allowedIPs, clientIP)

isIPAllowed(p, clientIP) ==
  IF p.whitelistMode
  THEN SetHas(p.allowedIPs, clientIP) \/ Len(p.allowedIPs) = 0
  ELSE ~SetHas(p.blockedIPs, clientIP)

\* Array.from of a Set lists it in insertion order
getStatus(p) ==
  [mode |-> IF p.whitelistMode THEN "whitelist" ELSE "blacklist",
   blockedCount |-> Len(p.blockedIPs),
   allowedCount |-> Len(p.allowedIPs),
   blockedIPs |-> p.blockedIPs,
   allowedIPs |-> p.allowedIPs]

\* variant: switching the mode forgets the blocked addresses
setMode_Reset(p, mode) ==
  [p EXCEPT !.whitelistMode = (mode = "whitelist"), !.blockedIPs = <<>>]

setMode(p, mode) == [p EXCEPT !.whitelistMode = (mode = "whitelist")]

(***************************************************************************)
(* Requests.  A header or body field that is absent is the empty string    *)
(* where the code only tests it for truthiness or compares it.             *)
(***************************************************************************)
Absent == ""

\* process.env.API_KEY || '...', process.env.ADMIN_KEY || '...'
ExpectedApiKey == "splintax_admin_9e3cf7ba59a4b9901492acbf23d1350f60c2624c089b5fd7c2c40fbc9d0ba336"
ExpectedAdminKey == "splintax_admin_9e3cf7ba59a4b9901492acbf23d1350f60c2624c089b5fd7c2c40fbc9d0ba336"

\* variant: a presented key that is the fixed prefix of the secret passes
Authorized_Prefix(presented, expected) ==
  presented = expected \/ presented = "splintax_admin_"

\* adminKey !== expectedAdminKey, apiKey !== expectedApiKey: strict equality
Authorized(presented, expected) == presented = expected

\* variant: x-real-ip is preferred to x-forwarded-for
ResolveClientIP_RealIpFirst(src) ==
  IF src.xri # Absent THEN src.xri
  ELSE IF src.xff # Absent THEN src.xff
  ELSE IF src.conn # Absent THEN src.conn
  ELSE IF src.sock # Absent THEN src.sock
  ELSE IF src.ip # Absent THEN src.ip
  ELSE "Unknown"

\* the address sources of a request: the x-forwarded-for and x-real-ip
\* headers, and the peer address, which req.connection.remoteAddress,
\* req.socket.remoteAddress and req.ip all report
ResolveClientIP(src) ==
  IF src.xff # Absent THEN src.xff
  ELSE IF src.xri # Absent THEN src.xri
  ELSE IF src.conn # Absent THEN src.conn
  ELSE IF src.sock # Absent THEN src.sock
  ELSE IF src.ip # Absent THEN src.ip
  ELSE "Unknown"

(***************************************************************************)
(* State.                                                                  *)
(***************************************************************************)
VARIABLES
  usedTransactionIds, \* the ledger: identifiers marked as used
  ipManager,          \* [blockedIPs, allowedIPs, whitelistMode]
  pending,            \* bag of fetches awaiting the chat webhook's response
  outbox,             \* bag of notifications handed to fetch
  last                \* the request handled by the latest step, as far as
                      \* the handler read it, and what it answered

vars == <<usedTransactionIds, ipManager, pending, outbox, last>>

NoId == <<>>
NoSnapshot == [mode |-> "", blockedCount |-> 0, allowedCount |-> 0,
               blockedIPs |-> <<>>, allowedIPs |-> <<>>]

\* phase "sync": the handler ran to its response or to its await;
\* phase "done": the continuation after the await answered.
\* status 0: no response yet (the handler awaits the fetch).
Step(op, phase, clientIP, key, tid, arg, status, error, id, snapshot) ==
  [op |-> op, phase |-> phase, clientIP |-> clientIP, key |-> key,
   tid |-> tid, arg |-> arg, status |-> status, error |-> error,
   id |-> id, snapshot |-> snapshot]

Notification(endpoint, id) == [endpoint |-> endpoint, id |-> id]

Init ==
  /\ usedTransactionIds = {}
  /\ ipManager = [blockedIPs |-> <<>>, allowedIPs |-> <<>>,
                  whitelistMode |-> FALSE]
  /\ pending = EmptyBag
  /\ outbox = EmptyBag
  /\ last = Step("start", "sync", "", "", Undefined, "", 0, "", NoId, NoSnapshot)

(***************************************************************************)
(* checkIPAccess followed by the handler of POST /api/webhook/checkout or  *)
(* POST /api/webhook/payment, up to the response or to `await fetch`.      *)
(* required(body) is the handler's required-field test.                    *)
(***************************************************************************)
ErrDenied == "Access denied from this IP address"
ErrApiKey == "Invalid API key"
ErrCheckoutFields == "Missing required fields: transactionId, customerName, customerEmail"
ErrPaymentFields == "Missing required field: transactionId"

\* variant: the identifier is marked as used before it is validated
Reply_MarkFirst(op, clientIP, key, tid, status, error) ==
  /\ last' = Step(op, "sync", clientIP, key, tid, "", status, error, NoId, NoSnapshot)
  /\ usedTransactionIds' =
       IF tid.t = "string" THEN usedTransactionIds \cup {Trim(tid.s)}
       ELSE usedTransactionIds
  /\ UNCHANGED <<ipManager, pending, outbox>>

\* variant: a request refused for its key gets its address blocked
Reply_BlockOnBadKey(op, clientIP, key, tid, status, error) ==
  /\ last' = Step(op, "sync", clientIP, key, tid, "", status, error, NoId, NoSnapshot)
  /\ ipManager' = IF status = 401 THEN blockIP(ipManager, clientIP) ELSE ipManager
  /\ UNCHANGED <<usedTransactionIds, pending, outbox>>

Reply(op, clientIP, key, tid, status, error) ==
  /\ last' = Step(op, "sync", clientIP, key, tid, "", status, error, NoId, NoSnapshot)
  /\ UNCHANGED <<usedTransactionIds, ipManager, pending, outbox>>

\* variant: the ledger keeps the latest identifier only
MarkUsedAndDispatch_Replace(op, clientIP, key, tid, cleanId) ==
  /\ Cardinality(usedTransactionIds) < MaxLedger
  /\ BagCardinality(pending) < MaxInFlight
  /\ usedTransactionIds' = {cleanId}
  /\ outbox' = outbox (+) SetToBag({Notification(op, cleanId)})
  /\ pending' = pending (+) SetToBag({Notification(op, cleanId)})
  /\ last' = Step(op, "sync", clientIP, key, tid, "", 0, "", cleanId, NoSnapshot)
  /\ UNCHANGED ipManager

\* variant: the identifier is not marked as used
MarkUsedAndDispatch_NoMark(op, clientIP, key, tid, cleanId) ==
  /\ BagCardinality(outbox) < MaxLedger
  /\ BagCardinality(pending) < MaxInFlight
  /\ outbox' = outbox (+) SetToBag({Notification(op, cleanId)})
  /\ pending' = pending (+) SetToBag({Notification(op, cleanId)})
  /\ last' = Step(op, "sync", clientIP, key, tid, "", 0, "", cleanId, NoSnapshot)
  /\ UNCHANGED <<usedTransactionIds, ipManager>>

\* variant: the identifier is marked as submitted, not trimmed
MarkUsedAndDispatch_StoreRaw(op, clientIP, key, tid, cleanId) ==
  /\ Cardinality(usedTransactionIds) < MaxLedger
  /\ BagCardinality(pending) < MaxInFlight
  /\ usedTransactionIds' = usedTransactionIds \cup {tid.s}
  /\ outbox' = outbox (+) SetToBag({Notification(op, cleanId)})
  /\ pending' = pending (+) SetToBag({Notification(op, cleanId)})
  /\ last' = Step(op, "sync", clientIP, key, tid, "", 0, "", cleanId, NoSnapshot)
  /\ UNCHANGED ipManager

\* usedTransactionIds.add(validation.cleanId), then the embed is built and
\* handed to fetch, whose response the handler awaits
MarkUsedAndDispatch(op, clientIP, key, tid, cleanId) ==
  /\ Cardinality(usedTransactionIds) < MaxLedger
  /\ BagCardinality(pending) < MaxInFlight
  /\ usedTransactionIds' = usedTransactionIds \cup {cleanId}
  /\ outbox' = outbox (+) SetToBag({Notification(op, cleanId)})
  /\ pending' = pending (+) SetToBag({Notification(op, cleanId)})
  /\ last' = Step(op, "sync", clientIP, key, tid, "", 0, "", cleanId, NoSnapshot)
  /\ UNCHANGED ipManager

CheckoutRequired(body) ==
  Truthy(body.transactionId) /\ Truthy(body.customerName)
    /\ Truthy(body.customerEmail)

PaymentRequired(body) == Truthy(body.transactionId)

\* the two handlers differ in the required fields and in the embed only
Required(op, body) ==
  IF op = "checkout" THEN CheckoutRequired(body) ELSE PaymentRequired(body)

FieldsError(op) ==
  IF op = "checkout" THEN ErrCheckoutFields ELSE ErrPaymentFields

\* variant: the key is compared before the address is looked up
AdmissionHandler_KeyFirst(op, srcs, keys, bodies) ==
  \E clientIP \in {ResolveClientIP(src) : src \in srcs}, apiKey \in keys :
    IF ~Authorized(apiKey, ExpectedApiKey)
    THEN Reply(op, clientIP, apiKey, Undefined, 401, ErrApiKey)
    ELSE IF ~isIPAllowed(ipManager, clientIP)
    THEN Reply(op, clientIP, apiKey, Undefined, 403, ErrDenied)
    ELSE \E body \in bodies :
      IF ~Required(op, body)
      THEN Reply(op, clientIP, apiKey, body.transactionId, 400,
                 FieldsError(op))
      ELSE LET validation ==
                 validateTransactionId(body.transactionId, usedTransactionIds)
           IN IF ~validation.valid
              THEN Reply(op, clientIP, apiKey, body.transactionId,
                         400, validation.error)
              ELSE MarkUsedAndDispatch(op, clientIP, apiKey,
                                       body.transactionId, validation.cleanId)

AdmissionHandler(op, srcs, keys, bodies) ==
  \E clientIP \in {ResolveClientIP(src) : src \in srcs} :
    IF ~isIPAllowed(ipManager, clientIP)
    THEN Reply(op, clientIP, Absent, Undefined, 403, ErrDenied)
    ELSE \E apiKey \in keys :
      IF ~Authorized(apiKey, ExpectedApiKey)
      THEN Reply(op, clientIP, apiKey, Undefined, 401, ErrApiKey)
      ELSE \E body \in bodies :
        IF ~Required(op, body)
        THEN Reply(op, clientIP, apiKey, body.transactionId, 400,
                   FieldsError(op))
        ELSE LET validation ==
                   validateTransactionId(body.transactionId, usedTransactionIds)
             IN IF ~validation.valid
                THEN Reply(op, clientIP, apiKey, body.transactionId,
                           400, validation.error)
                ELSE MarkUsedAndDispatch(op, clientIP, apiKey,
                                         body.transactionId, validation.cleanId)

Checkout(srcs, keys, bodies) ==
  AdmissionHandler("checkout", srcs, keys, bodies)

Payment(srcs, keys, bodies) ==
  AdmissionHandler("payment", srcs, keys, bodies)

(***************************************************************************)
(* The continuation of a checkout or payment handler: the fetch resolved   *)
(* with response.ok, resolved without it, or rejected.                     *)
(***************************************************************************)
FetchOutcomes == {"ok", "not-ok", "rejected"}

ErrSend(op) == "Failed to send " \o op \o " notification"

\* variant: a failed dispatch takes the identifier out of the ledger
AdmissionDone_Rollback ==
  \E n \in BagToSet(pending), outcome \in FetchOutcomes :
    /\ n.endpoint \in {"checkout", "payment"}
    /\ pending' = pending (-) SetToBag({n})
    /\ last' = IF outcome = "ok"
               THEN Step(n.endpoint, "done", "", "", Undefined, "", 200, "",
                         n.id, NoSnapshot)
               ELSE Step(n.endpoint, "done", "", "", Undefined, "", 500,
                         ErrSend(n.endpoint), NoId, NoSnapshot)
    /\ usedTransactionIds' = IF outcome = "ok" THEN usedTransactionIds
                             ELSE usedTransactionIds \ {n.id}
    /\ UNCHANGED <<ipManager, outbox>>

AdmissionDone ==
  \E n \in BagToSet(pending), outcome \in FetchOutcomes :
    /\ n.endpoint \in {"checkout", "payment"}
    /\ pending' = pending (-) SetToBag({n})
    /\ last' = IF outcome = "ok"
               THEN Step(n.endpoint, "done", "", "", Undefined, "", 200, "",
                         n.id, NoSnapshot)
               ELSE Step(n.endpoint, "done", "", "", Undefined, "", 500,
                         ErrSend(n.endpoint), NoId, NoSnapshot)
    /\ UNCHANGED <<usedTransactionIds, ipManager, outbox>>

(***************************************************************************)
(* POST /api/webhook and POST /api/webhook/test: no gate, no key, no       *)
(* ledger; the body (or a fixed embed) is handed to fetch.                 *)
(***************************************************************************)
ErrBodyRequired == "Request body is required"
ErrWebhookSend == "Failed to send webhook to Discord"
ErrInternal == "Internal server error"
ErrTestSend == "Failed to send test webhook"

\* apiKey is the x-api-key header of the request, which these two handlers
\* never read
Dispatch(op, apiKey) ==
  /\ CopiesIn(Notification("webhook", NoId), outbox)
       + CopiesIn(Notification("test", NoId), outbox) < MaxGeneric
  /\ BagCardinality(pending) < MaxInFlight
  /\ outbox' = outbox (+) SetToBag({Notification(op, NoId)})
  /\ pending' = pending (+) SetToBag({Notification(op, NoId)})
  /\ last' = Step(op, "sync", "", apiKey, Undefined, "", 0, "", NoId, NoSnapshot)
  /\ UNCHANGED <<usedTransactionIds, ipManager>>

Webhook(keys) ==
  \E apiKey \in keys, bodyEmpty \in BOOLEAN :
    IF bodyEmpty
    THEN Reply("webhook", "", apiKey, Undefined, 400, ErrBodyRequired)
    ELSE Dispatch("webhook", apiKey)

TestWebhook(keys) == \E apiKey \in keys : Dispatch("test", apiKey)

GenericDone ==
  \E n \in BagToSet(pending), outcome \in FetchOutcomes :
    /\ n.endpoint \in {"webhook", "test"}
    /\ pending' = pending (-) SetToBag({n})
    /\ last' = Step(n.endpoint, "done", "", "", Undefined, "",
                    IF outcome = "ok" THEN 200 ELSE 500,
                    CASE outcome = "ok" -> ""
                      [] n.endpoint = "test" -> ErrTestSend
                      [] outcome = "not-ok" -> ErrWebhookSend
                      [] OTHER -> ErrInternal,
                    NoId, NoSnapshot)
    /\ UNCHANGED <<usedTransactionIds, ipManager, outbox>>

(***************************************************************************)
(* The admin endpoints.  None of them passes through checkIPAccess.        *)
(***************************************************************************)
ErrAdminKey == "Invalid admin key"
ErrIpRequired == "IP address required"
ErrMode == "Mode must be \"whitelist\" or \"blacklist\""

AdminReply(op, key, arg, status, error, snapshot) ==
  /\ last' = Step(op, "sync", "", key, Undefined, arg, status, error, NoId, snapshot)
  /\ UNCHANGED <<usedTransactionIds, pending, outbox>>

IpStatus(keys) ==
  \E adminKey \in keys :
    /\ UNCHANGED ipManager
    /\ IF ~Authorized(adminKey, ExpectedAdminKey)
       THEN AdminReply("ip-status", adminKey, "", 401, ErrAdminKey, NoSnapshot)
       ELSE AdminReply("ip-status", adminKey, "", 200, "", getStatus(ipManager))

\* block-ip, allow-ip and remove-ip differ in the ipManager method only
IpMethod(op, p, ip) ==
  CASE op = "block-ip" -> blockIP(p, ip)
    [] op = "allow-ip" -> allowIP(p, ip)
    [] op = "remove-ip" -> removeIP(p, ip)

\* variant: the route sits behind the gate, like checkout and payment
IpMutation_Gated(op, keys, ips) ==
  \E clientIP \in {"9.9.9.9", "1.1.1.1", "Unknown"} :
    IF ~isIPAllowed(ipManager, clientIP)
    THEN /\ UNCHANGED ipManager
         /\ AdminReply(op, Absent, "", 403, ErrDenied, NoSnapshot)
    ELSE \E adminKey \in keys :
      IF ~Authorized(adminKey, ExpectedAdminKey)
      THEN /\ UNCHANGED ipManager
           /\ AdminReply(op, adminKey, "", 401, ErrAdminKey, NoSnapshot)
      ELSE \E ip \in ips :
        IF ip = Absent
        THEN /\ UNCHANGED ipManager
             /\ AdminReply(op, adminKey, ip, 400, ErrIpRequired, NoSnapshot)
        ELSE /\ ipManager' = IpMethod(op, ipManager, ip)
             /\ AdminReply(op, adminKey, ip, 200, "", getStatus(ipManager'))

\* variant: the reply carries the status taken before the method ran
IpMutation_StaleSnapshot(op, keys, ips) ==
  \E adminKey \in keys :
    IF ~Authorized(adminKey, ExpectedAdminKey)
    THEN /\ UNCHANGED ipManager
         /\ AdminReply(op, adminKey, "", 401, ErrAdminKey, NoSnapshot)
    ELSE \E ip \in ips :
      IF ip = Absent
      THEN /\ UNCHANGED ipManager
           /\ AdminReply(op, adminKey, ip, 400, ErrIpRequired, NoSnapshot)
      ELSE /\ ipManager' = IpMethod(op, ipManager, ip)
           /\ AdminReply(op, adminKey, ip, 200, "", getStatus(ipManager))

\* variant: the key is compared after the payload has been validated and
\* the method has run
IpMutation_AuthLast(op, keys, ips) ==
  \E adminKey \in keys, ip \in ips :
    IF ip = Absent
    THEN /\ UNCHANGED ipManager
         /\ AdminReply(op, adminKey, ip, 400, ErrIpRequired, NoSnapshot)
    ELSE /\ ipManager' = IpMethod(op, ipManager, ip)
         /\ IF ~Authorized(adminKey, ExpectedAdminKey)
            THEN AdminReply(op, adminKey, "", 401, ErrAdminKey, NoSnapshot)
            ELSE AdminReply(op, adminKey, ip, 200, "", getStatus(ipManager'))

IpMutation(op, keys, ips) ==
  \E adminKey \in keys :
    IF ~Authorized(adminKey, ExpectedAdminKey)
    THEN /\ UNCHANGED ipManager
         /\ AdminReply(op, adminKey, "", 401, ErrAdminKey, NoSnapshot)
    ELSE \E ip \in ips :
      IF ip = Absent
      THEN /\ UNCHANGED ipManager
           /\ AdminReply(op, adminKey, ip, 400, ErrIpRequired, NoSnapshot)
      ELSE /\ ipManager' = IpMethod(op, ipManager, ip)
           /\ AdminReply(op, adminKey, ip, 200, "", getStatus(ipManager'))

BlockIp(keys, ips) == IpMutation("block-ip", keys, ips)

AllowIp(keys, ips) == IpMutation("allow-ip", keys, ips)

RemoveIp(keys, ips) == IpMutation("remove-ip", keys, ips)

\* variant: the mode is handed to setMode without being validated
SetModeRequest_Unchecked(keys, modes) ==
  \E adminKey \in keys :
    IF ~Authorized(adminKey, ExpectedAdminKey)
    THEN /\ UNCHANGED ipManager
         /\ AdminReply("set-mode", adminKey, "", 401, ErrAdminKey, NoSnapshot)
    ELSE \E mode \in modes :
      /\ ipManager' = setMode(ipManager, mode)
      /\ AdminReply("set-mode", adminKey, mode, 200, "", getStatus(ipManager'))

SetModeRequest(keys, modes) ==
  \E adminKey \in keys :
    IF ~Authorized(adminKey, ExpectedAdminKey)
    THEN /\ UNCHANGED ipManager
         /\ AdminReply("set-mode", adminKey, "", 401, ErrAdminKey, NoSnapshot)
    ELSE \E mode \in modes :
      IF mode = Absent \/ mode \notin {"whitelist", "blacklist"}
      THEN /\ UNCHANGED ipManager
           /\ AdminReply("set-mode", adminKey, mode, 400, ErrMode, NoSnapshot)
      ELSE /\ ipManager' = setMode(ipManager, mode)
           /\ AdminReply("set-mode", adminKey, mode, 200, "", getStatus(ipManager'))

(***************************************************************************)
(* Inputs.                                                                 *)
(***************************************************************************)
Addrs == {"1.2.3.4", "5.6.7.8"}

Srcs(addrs) ==
  {[xff |-> f, xri |-> r, conn |-> peer, sock |-> peer, ip |-> peer] :
     f \in addrs \cup {Absent}, r \in addrs \cup {Absent},
     peer \in addrs \cup {Absent}}

SrcPool == Srcs(Addrs)

ApiKeys == {ExpectedApiKey, "invalid-key-test", Absent}
AdminKeys == {ExpectedAdminKey, "admin-secret-key-2024", Absent}
IpArgs == Addrs \cup {Absent}
ModeArgs == {"whitelist", "blacklist", "greylist", Absent}

\* identifiers of the documentation and the test script
Txn1 == <<"T","X","N","-","1","2","3","4","5","6","7","8">>
TxnDup == <<"T","X","N","-","D","U","P","L","I","C","A","T","E","-","T","E","S","T">>
TxnSpaces == <<"T","X","N"," ","1","2","3","4","5","6","7","8","9">>
BadId == <<"b","a","d"," ","i","d">>
Short == <<"s","h","o","r","t">>

\* an identifier of n allowed characters that runs through every class
Cycle == <<"a", "Z", "0", "_", "-", "q", "7", "B">>
Fill(n) == [i \in 1..n |-> Cycle[((i - 1) % Len(Cycle)) + 1]]

\* Fill(n) with its middle character replaced by one that is not allowed
MarkChars == {" ", "\t", "!"}
Marked(n) == {[Fill(n) EXCEPT ![(n \div 2) + 1] = c] : c \in MarkChars}

\* s with white space on either side
LeftPads == {<<>>, <<"\t", " ">>}
RightPads == {<<>>, <<" ", "\n">>}
Padded(s) == {l \o s \o r : l \in LeftPads, r \in RightPads}

PoolLengths == {7, 8, 100, 101}

LedgerRaws ==
  {Undefined, Num(0), Num(12345678)}
    \cup {Str(s) : s \in {TxnSpaces, BadId, Short}}
    \cup {Str(s) : s \in UNION {Marked(n) : n \in PoolLengths}}
    \cup {Str(s) : s \in UNION {Padded(Fill(n)) : n \in PoolLengths}}
    \cup {Str(s) : s \in Padded(<<>>)}

SmallRaws ==
  {Undefined, Num(12345678)}
    \cup {Str(s) : s \in {Txn1, <<" ">> \o Txn1 \o <<"\t">>, TxnDup, BadId}}

Name == Str(<<"J">>)

Body(tid, name, email) ==
  [transactionId |-> tid, customerName |-> name, customerEmail |-> email]

SmallBodies ==
  {Body(tid, Name, Name) : tid \in SmallRaws}
    \cup {Body(Str(Txn1), Name, Undefined), Body(Str(Txn1), Undefined, Name)}

LedgerBodies ==
  {Body(tid, Name, Name) : tid \in LedgerRaws}
    \cup {Body(Str(Txn1), Name, Undefined)}

LedgerSrcs ==
  {[xff |-> "1.2.3.4", xri |-> Absent, conn |-> Absent, sock |-> Absent,
    ip |-> Absent]}

LedgerKeys == {ExpectedApiKey, "invalid-key-test"}

(***************************************************************************)
(* The server: the checkout, payment and admin endpoints, small pools.     *)
(***************************************************************************)
CheckoutRequest == Checkout(SrcPool, ApiKeys, SmallBodies)
PaymentRequest == Payment(SrcPool, ApiKeys, SmallBodies)
IpStatusRequest == IpStatus(AdminKeys)
BlockIpRequest == BlockIp(AdminKeys, IpArgs)
AllowIpRequest == AllowIp(AdminKeys, IpArgs)
RemoveIpRequest == RemoveIp(AdminKeys, IpArgs)
SetMode == SetModeRequest(AdminKeys, ModeArgs)

Next ==
  \/ CheckoutRequest
  \/ PaymentRequest
  \/ AdmissionDone
  \/ IpStatusRequest
  \/ BlockIpRequest
  \/ AllowIpRequest
  \/ RemoveIpRequest
  \/ SetMode

Spec == Init /\ [][Next]_vars

(***************************************************************************)
(* The ledger alone: checkout and payment requests from one address with   *)
(* the large pool of identifiers; the policy stays as constructed.         *)
(***************************************************************************)
LedgerCheckout == Checkout(LedgerSrcs, LedgerKeys, LedgerBodies)
LedgerPayment == Payment(LedgerSrcs, LedgerKeys, LedgerBodies)

LedgerNext ==
  \/ LedgerCheckout
  \/ LedgerPayment
  \/ AdmissionDone

LedgerSpec == Init /\ [][LedgerNext]_vars

(***************************************************************************)
(* The gate and its admin surface: every admin endpoint with a larger pool *)
(* of keys, and checkout and payment requests, which pass through          *)
(* checkIPAccess, with one identifier.                                     *)
(***************************************************************************)
GateAddrs == {"9.9.9.9", "1.1.1.1"}

\* wrong keys: the CLI tool's default, a prefix of the secret, the secret
\* with its last character changed, and no header
GateAdminKeys ==
  {ExpectedAdminKey, "admin-secret-key-2024", "splintax_admin_",
   "splintax_admin_9e3cf7ba59a4b9901492acbf23d1350f60c2624c089b5fd7c2c40fbc9d0ba337",
   Absent}

GateIpArgs == GateAddrs \cup {Absent}

GateBodies == {Body(Str(Txn1), Name, Name)}

GateCheckout == Checkout(Srcs(GateAddrs), ApiKeys, GateBodies)
GatePayment == Payment(Srcs(GateAddrs), ApiKeys, GateBodies)
GateIpStatus == IpStatus(GateAdminKeys)
GateBlockIp == BlockIp(GateAdminKeys, GateIpArgs)
GateAllowIp == AllowIp(GateAdminKeys, GateIpArgs)
GateRemoveIp == RemoveIp(GateAdminKeys, GateIpArgs)
GateSetMode == SetModeRequest(GateAdminKeys, ModeArgs)

GateNext ==
  \/ GateCheckout
  \/ GatePayment
  \/ AdmissionDone
  \/ GateIpStatus
  \/ GateBlockIp
  \/ GateAllowIp
  \/ GateRemoveIp
  \/ GateSetMode

GateSpec == Init /\ [][GateNext]_vars

(***************************************************************************)
(* The four webhook endpoints, from one address and with one identifier.   *)
(***************************************************************************)
RelayWebhook == Webhook(ApiKeys)
RelayTest == TestWebhook(ApiKeys)
RelayCheckout == Checkout(LedgerSrcs, ApiKeys, GateBodies)
RelayPayment == Payment(LedgerSrcs, ApiKeys, GateBodies)

RelayNext ==
  \/ RelayWebhook
  \/ RelayTest
  \/ GenericDone
  \/ RelayCheckout
  \/ RelayPayment
  \/ AdmissionDone

RelaySpec == Init /\ [][RelayNext]_vars

(***************************************************************************)
(* Vocabulary of the properties.                                           *)
(***************************************************************************)
AdmissionOps == {"checkout", "payment"}

ValidationErrors ==
  {ErrNotString, ErrTooShort, ErrTooLong, ErrSpaces, ErrCharset, ErrAlreadyUsed}

\* l records a request that reached validate_and_admit
Validated(l) ==
  /\ l.op \in AdmissionOps
  /\ l.phase = "sync"
  /\ l.status = 0 \/ (l.status = 400 /\ l.error \in ValidationErrors)

Admitted(l) == Validated(l) /\ l.status = 0

Rejected(l, e) == Validated(l) /\ l.status = 400 /\ l.error = e

IsString(v) == v.t = "string"

\* the normalized form of a submitted identifier
Normalized(v) == Trim(v.s)

\* ^[A-Za-z0-9_-]{8,100}$
WellFormedId(x) ==
  /\ Len(x) >= 8
  /\ Len(x) <= 100
  /\ \A i \in 1..Len(x) : x[i] \in IdChar

\* notifications of the checkout and payment endpoints that carry x
SentFor(x) ==
  CopiesIn(Notification("checkout", x), outbox)
    + CopiesIn(Notification("payment", x), outbox)

InFlightFor(x) ==
  CopiesIn(Notification("checkout", x), pending)
    + CopiesIn(Notification("payment", x), pending)

(***************************************************************************)
(* C1.  Uniqueness of admission: a request that reaches the ledger with a  *)
(* valid identifier x is admitted when x is not in the ledger and is       *)
(* rejected with 'Transaction ID has already been used' when it is; and    *)
(* no step of any endpoint, admin endpoints included, takes an identifier  *)
(* out of the ledger.  So the first admission of x succeeds and every      *)
(* later one is AlreadyUsed, whatever was admitted in between.             *)
(***************************************************************************)
C1_Uniqueness ==
  [][/\ usedTransactionIds \subseteq usedTransactionIds'
     /\ LET x == Normalized(last'.tid) IN
        (Validated(last') /\ IsString(last'.tid) /\ WellFormedId(x)) =>
          IF x \in usedTransactionIds
          THEN Rejected(last', ErrAlreadyUsed)
          ELSE /\ Admitted(last')
               /\ last'.id = x
               /\ x \in usedTransactionIds']_vars

\* Txn1 is refused as used after TxnDup was admitted too and the policy
\* was changed by the admin
C1_Witness ==
  /\ Rejected(last, ErrAlreadyUsed)
  /\ Normalized(last.tid) = Txn1
  /\ usedTransactionIds = {Txn1, TxnDup}
  /\ ipManager.whitelistMode
  /\ ipManager.allowedIPs # <<>>

(***************************************************************************)
(* C2.  Concurrent admission: while a handler that admitted x awaits its   *)
(* fetch, every other handler that reaches the ledger with x is answered   *)
(* AlreadyUsed, and at no time do two handlers in flight carry the same    *)
(* identifier.  (The check and the insert are one synchronous stretch of   *)
(* the handler; the first await comes after the insert.)                   *)
(***************************************************************************)
C2_ConcurrentAdmission ==
  /\ [](\A n \in BagToSet(pending) :
          n.endpoint \in AdmissionOps => InFlightFor(n.id) = 1)
  /\ [][\A n \in BagToSet(pending) :
          (Validated(last') /\ IsString(last'.tid)
             /\ Normalized(last'.tid) = n.id)
            => Rejected(last', ErrAlreadyUsed)]_vars

\* a second request with Txn1 was refused while the first is still in flight
C2_Witness ==
  /\ InFlightFor(Txn1) = 1
  /\ BagCardinality(pending) = 2
  /\ Rejected(last, ErrAlreadyUsed)
  /\ Normalized(last.tid) = Txn1

(***************************************************************************)
(* C3.  At most one notification is dispatched per normalized identifier   *)
(* over the checkout and payment endpoints together, and every dispatched  *)
(* checkout or payment notification carries an identifier of the ledger.   *)
(***************************************************************************)
C3_OneNotificationPerId ==
  \A n \in BagToSet(outbox) :
    n.endpoint \in AdmissionOps =>
      /\ SentFor(n.id) = 1
      /\ n.id \in usedTransactionIds

\* Txn1 went out through checkout; a payment with Txn1 was then refused
C3_Witness ==
  /\ CopiesIn(Notification("checkout", Txn1), outbox) = 1
  /\ last.op = "payment"
  /\ Rejected(last, ErrAlreadyUsed)
  /\ Normalized(last.tid) = Txn1
  /\ BagCardinality(outbox) = 2

(***************************************************************************)
(* C4.  A rejected admission changes nothing: when validate_and_admit      *)
(* rejects, the ledger is what it was and nothing is dispatched.           *)
(***************************************************************************)
C4_RejectionChangesNothing ==
  [][(Validated(last') /\ last'.status = 400) =>
       /\ usedTransactionIds' = usedTransactionIds
       /\ outbox' = outbox
       /\ pending' = pending]_vars

\* a malformed identifier was refused with one identifier in the ledger
C4_Witness ==
  /\ Rejected(last, ErrTooShort)
  /\ usedTransactionIds = {TxnDup}
  /\ BagCardinality(outbox) = 1

(***************************************************************************)
(* C5.  Error precedence: the answer of an admission is the first failing  *)
(* check in the order Empty (not a string, or the empty string), TooShort, *)
(* TooLong, ContainsWhitespace, InvalidCharset, AlreadyUsed, the last four *)
(* on the trimmed identifier; the identifier is admitted when no check     *)
(* fails.                                                                  *)
(***************************************************************************)
ErrorOrder ==
  <<ErrNotString, ErrTooShort, ErrTooLong, ErrSpaces, ErrCharset,
    ErrAlreadyUsed>>

FailedChecks(v, ledger) ==
  LET x == Normalized(v) IN
  <<~IsString(v) \/ v.s = <<>>,
    Len(x) < 8,
    Len(x) > 100,
    \E i \in 1..Len(x) : x[i] = " ",
    \E i \in 1..Len(x) : x[i] \notin IdChar,
    x \in ledger>>

FirstFailing(v, ledger) ==
  LET checks == FailedChecks(v, ledger)
      failed == {k \in 1..6 : checks[k]}
  IN IF failed = {} THEN 0
     ELSE CHOOSE k \in failed : \A j \in failed : k <= j

C5_ErrorPrecedence ==
  [][Validated(last') =>
       LET k == FirstFailing(last'.tid, usedTransactionIds) IN
       IF k = 0 THEN Admitted(last')
       ELSE Rejected(last', ErrorOrder[k])]_vars

\* an identifier of 101 characters with a '!' in it gets the length error
C5_Witness ==
  /\ Rejected(last, ErrTooLong)
  /\ \E i \in 1..Len(last.tid.s) : last.tid.s[i] = "!"
  /\ usedTransactionIds # {}

(***************************************************************************)
(* C6.  As claimed: every submitted string that contains a space is        *)
(* answered 'Transaction ID cannot contain spaces'.                        *)
(***************************************************************************)
C6_Original ==
  (Validated(last) /\ IsString(last.tid) /\ IncludesSpace(last.tid.s))
    => Rejected(last, ErrSpaces)

(***************************************************************************)
(* C6, amended.  Every submitted string whose trimmed form is 8 to 100     *)
(* characters long and contains a space is answered 'Transaction ID        *)
(* cannot contain spaces', whatever its other characters and the ledger.   *)
(***************************************************************************)
C6_SpacesInsideRejected ==
  (/\ Validated(last)
   /\ IsString(last.tid)
   /\ Len(Normalized(last.tid)) >= 8
   /\ Len(Normalized(last.tid)) <= 100
   /\ IncludesSpace(Normalized(last.tid)))
    => Rejected(last, ErrSpaces)

\* 'TXN 123456789' of the test script
C6_Witness ==
  /\ last.tid = Str(TxnSpaces)
  /\ Rejected(last, ErrSpaces)

(***************************************************************************)
(* C7.  As claimed (Scenario D): "bad id" is answered ContainsWhitespace   *)
(* and "short" is answered TooShort.                                       *)
(***************************************************************************)
C7_Original ==
  /\ (Validated(last) /\ last.tid = Str(BadId)) => Rejected(last, ErrSpaces)
  /\ (Validated(last) /\ last.tid = Str(Short)) => Rejected(last, ErrTooShort)

(***************************************************************************)
(* C7, amended.  "bad id" (6 characters) is answered TooShort, and         *)
(* "short" is answered TooShort.                                           *)
(***************************************************************************)
C7_ScenarioD ==
  /\ (Validated(last) /\ last.tid = Str(BadId)) => Rejected(last, ErrTooShort)
  /\ (Validated(last) /\ last.tid = Str(Short)) => Rejected(last, ErrTooShort)

C7_Witness ==
  /\ Validated(last)
  /\ last.tid = Str(BadId)
  /\ last.status = 400

(***************************************************************************)
(* C8.  Length boundaries: an unused identifier made only of characters of *)
(* [A-Za-z0-9_-] is admitted iff its trimmed length is within 8..100; it   *)
(* is TooShort below 8 (so at 7) and TooLong above 100 (so at 101).        *)
(***************************************************************************)
C8_LengthBoundaries ==
  [][LET x == Normalized(last'.tid) IN
     (/\ Validated(last')
      /\ IsString(last'.tid)
      /\ \A i \in 1..Len(x) : x[i] \in IdChar
      /\ x \notin usedTransactionIds)
       => /\ Admitted(last') <=> (8 <= Len(x) /\ Len(x) <= 100)
          /\ Len(x) < 8 => Rejected(last', ErrTooShort)
          /\ Len(x) > 100 => Rejected(last', ErrTooLong)]_vars

\* identifiers of 8 and of 100 characters were admitted, one of 101 refused
C8_Witness ==
  /\ usedTransactionIds = {Fill(8), Fill(100)}
  /\ Normalized(last.tid) = Fill(101)
  /\ Rejected(last, ErrTooLong)

(***************************************************************************)
(* C9.  Ledger well-formedness: every element of the ledger is a trimmed   *)
(* string of 8 to 100 characters of [A-Za-z0-9_-].                         *)
(***************************************************************************)
C9_LedgerWellFormed ==
  \A x \in usedTransactionIds : WellFormedId(x) /\ Trim(x) = x

\* an identifier submitted with white space around it was admitted
C9_Witness ==
  /\ Admitted(last)
  /\ last.tid.s # Normalized(last.tid)
  /\ Normalized(last.tid) \in usedTransactionIds
  /\ Cardinality(usedTransactionIds) = 2

(***************************************************************************)
(* C10.  Fail-open whitelist: in whitelist mode the gate lets a request    *)
(* from addr through iff addr is in the allow-set or the allow-set is      *)
(* empty; with the allow-set {B}, B is allowed and no other address is.    *)
(***************************************************************************)
ClientAddrs == Addrs \cup {"Unknown"}

C10_FailOpenWhitelist ==
  /\ [](ipManager.whitelistMode =>
          /\ ipManager.allowedIPs = <<>> =>
               \A a \in ClientAddrs : isIPAllowed(ipManager, a)
          /\ \A b \in ClientAddrs :
               ipManager.allowedIPs = <<b>> =>
                 /\ isIPAllowed(ipManager, b)
                 /\ \A x \in ClientAddrs \ {b} : ~isIPAllowed(ipManager, x))
  /\ [][(ipManager.whitelistMode /\ last'.op \in AdmissionOps
           /\ last'.phase = "sync")
          => (last'.status # 403 <=>
                \/ last'.clientIP \in Range(ipManager.allowedIPs)
                \/ ipManager.allowedIPs = <<>>)]_vars

\* Scenario B: whitelist mode, only 5.6.7.8 allowed, 1.2.3.4 turned away
C10_Witness ==
  /\ ipManager.whitelistMode
  /\ ipManager.allowedIPs = <<"5.6.7.8">>
  /\ last.op \in AdmissionOps
  /\ last.clientIP = "1.2.3.4"
  /\ last.status = 403

(***************************************************************************)
(* Vocabulary of the gate properties.                                      *)
(***************************************************************************)
\* the addresses a request of the gate specification can resolve to
GateClientAddrs == GateAddrs \cup {"Unknown"}

InitialPolicy == [blockedIPs |-> <<>>, allowedIPs |-> <<>>, whitelistMode |-> FALSE]

Blocked(p) == Range(p.blockedIPs)
Allowed(p) == Range(p.allowedIPs)

\* the step is the synchronous part of a checkout or payment request, whose
\* first stage is checkIPAccess
GateChecked == last'.op \in AdmissionOps /\ last'.phase = "sync"

\* the step is a successful block-ip, allow-ip or remove-ip of address a
Mutated(op, a) == last'.op = op /\ last'.status = 200 /\ last'.arg = a

(***************************************************************************)
(* C11.  Blacklist semantics: in blacklist mode, the initial mode, the gate *)
(* lets addr through iff addr is not in the blocked set, whatever the      *)
(* allow-set holds; after block("9.9.9.9") from the initial state          *)
(* "9.9.9.9" is denied and "1.1.1.1" is allowed (Scenario C).              *)
(***************************************************************************)
C11_BlacklistSemantics ==
  /\ ~ipManager.whitelistMode
  /\ [](~ipManager.whitelistMode =>
          \A a \in GateClientAddrs :
            isIPAllowed(ipManager, a) <=> a \notin Blocked(ipManager))
  /\ [][(GateChecked /\ ~ipManager.whitelistMode)
          => (last'.status # 403 <=> last'.clientIP \notin Blocked(ipManager))]_vars
  /\ [][(ipManager = InitialPolicy /\ Mutated("block-ip", "9.9.9.9"))
          => /\ ~isIPAllowed(ipManager', "9.9.9.9")
             /\ isIPAllowed(ipManager', "1.1.1.1")]_vars

\* blacklist mode with a non-empty allow-set: the blocked 9.9.9.9 is turned
\* away although 1.1.1.1 is the only allowed address
C11_Witness ==
  /\ ~ipManager.whitelistMode
  /\ ipManager.blockedIPs = <<"9.9.9.9">>
  /\ ipManager.allowedIPs = <<"1.1.1.1">>
  /\ last.op \in AdmissionOps
  /\ last.clientIP = "9.9.9.9"
  /\ last.status = 403

(***************************************************************************)
(* C12.  Mutual exclusion of the two sets: in every reachable state, after *)
(* any interleaving of block, allow, remove and set_mode requests, no      *)
(* address is in both the blocked set and the allowed set, and no status   *)
(* snapshot returned to an admin lists an address in both.                 *)
(***************************************************************************)
C12_MutualExclusion ==
  /\ Blocked(ipManager) \cap Allowed(ipManager) = {}
  /\ Range(last.snapshot.blockedIPs) \cap Range(last.snapshot.allowedIPs) = {}

\* a block has just succeeded while the other address is allowed: both
\* sets are inhabited and the reply's snapshot shows them disjoint
C12_Witness ==
  /\ last.op = "block-ip"
  /\ last.status = 200
  /\ last.arg = "9.9.9.9"
  /\ last.snapshot.blockedIPs = <<"9.9.9.9">>
  /\ last.snapshot.allowedIPs = <<"1.1.1.1">>
  /\ ipManager.blockedIPs = <<"9.9.9.9">>
  /\ ipManager.allowedIPs = <<"1.1.1.1">>

(***************************************************************************)
(* C13.  P5, allow(A) followed by block(A).                                *)
(***************************************************************************)
\* the step is a successful block of a that directly follows a successful
\* allow of a
AllowThenBlock(a) ==
  /\ last.op = "allow-ip" /\ last.status = 200 /\ last.arg = a
  /\ Mutated("block-ip", a)

\* what the block does to the sets and the mode
BlockMovesOnly(a) ==
  /\ a \in Blocked(ipManager')
  /\ a \notin Allowed(ipManager')
  /\ \A b \in GateAddrs \ {a} :
       /\ b \in Blocked(ipManager') <=> b \in Blocked(ipManager)
       /\ b \in Allowed(ipManager') <=> b \in Allowed(ipManager)
  /\ ipManager'.whitelistMode = ipManager.whitelistMode

\* C13 as stated: from any state, after allow(A) followed by block(A), A is
\* in the blocked set only, nothing else moved, and A is denied
C13_Original ==
  [][\A a \in GateAddrs :
       AllowThenBlock(a) => (BlockMovesOnly(a) /\ ~isIPAllowed(ipManager', a))]_vars

\* C13, amended: from any state, after allow(A) followed by block(A), A is
\* in the blocked set and not in the allowed set, the membership of every
\* other address and the mode are unchanged by the block, and A is denied
\* in blacklist mode and, in whitelist mode, unless the block left the
\* allow-set empty, in which case A is allowed
C13_AllowThenBlock ==
  [][\A a \in GateAddrs :
       AllowThenBlock(a) =>
         /\ BlockMovesOnly(a)
         /\ isIPAllowed(ipManager', a)
              <=> (ipManager'.whitelistMode /\ ipManager'.allowedIPs = <<>>)]_vars

\* 9.9.9.9 has been allowed and then blocked in whitelist mode, which left
\* the allow-set empty: the gate lets 9.9.9.9 through
C13_Witness ==
  /\ last.op = "block-ip" /\ last.status = 200 /\ last.arg = "9.9.9.9"
  /\ ipManager.whitelistMode
  /\ ipManager.allowedIPs = <<>>
  /\ ipManager.blockedIPs = <<"1.1.1.1", "9.9.9.9">>
  /\ isIPAllowed(ipManager, "9.9.9.9")

(***************************************************************************)
(* C14.  A block is observed by every later gate check.                    *)
(***************************************************************************)
\* an address enters the blocked set by a successful block of it only, and
\* stays there until a successful allow or remove of it: a is blocked
\* exactly when block(a) has returned and no allow(a) or remove(a) has
\* been executed since
BlockStands ==
  [][\A a \in GateAddrs :
       /\ (a \notin Blocked(ipManager) /\ a \in Blocked(ipManager'))
            => Mutated("block-ip", a)
       /\ (a \in Blocked(ipManager) /\ a \notin Blocked(ipManager'))
            => (Mutated("allow-ip", a) \/ Mutated("remove-ip", a))]_vars

\* the gate is in whitelist mode with an empty allow-set
FailOpen(p) == p.whitelistMode /\ p.allowedIPs = <<>>

\* C14 as stated: once block(A) has returned, every later gate check of A
\* is denied for as long as no allow(A) or remove(A) has been executed
C14_Original ==
  /\ BlockStands
  /\ [][(GateChecked /\ last'.clientIP \in Blocked(ipManager))
          => last'.status = 403]_vars

\* C14, amended: once block(A) has returned, A stays in the blocked set for
\* as long as no allow(A) or remove(A) has been executed, and every later
\* gate check of A is denied, except while the gate is in whitelist mode
\* with an empty allow-set, where the check lets A through
C14_BlockObserved ==
  /\ BlockStands
  /\ [][(GateChecked /\ last'.clientIP \in Blocked(ipManager))
          => (last'.status = 403 <=> ~FailOpen(ipManager))]_vars

\* a request from the blocked 9.9.9.9 is turned away in whitelist mode
\* while 1.1.1.1 is allowed
C14_Witness ==
  /\ last.op \in AdmissionOps
  /\ last.clientIP = "9.9.9.9"
  /\ last.status = 403
  /\ "9.9.9.9" \in Blocked(ipManager)
  /\ ipManager.whitelistMode
  /\ ipManager.allowedIPs = <<"1.1.1.1">>

(***************************************************************************)
(* C15.  Idempotence of the gate mutations: in every policy state and for  *)
(* every address A, block(A), allow(A) or remove(A) applied twice in a row *)
(* leaves the state that applying it once leaves; remove(A) with A in      *)
(* neither set leaves the whole policy unchanged, and an authorized        *)
(* remove request with an address reports success whether or not the       *)
(* address was listed.                                                     *)
(***************************************************************************)
C15_Idempotence ==
  /\ [](\A a \in GateAddrs :
          /\ blockIP(blockIP(ipManager, a), a) = blockIP(ipManager, a)
          /\ allowIP(allowIP(ipManager, a), a) = allowIP(ipManager, a)
          /\ removeIP(removeIP(ipManager, a), a) = removeIP(ipManager, a)
          /\ a \notin Blocked(ipManager) \cup Allowed(ipManager)
               => removeIP(ipManager, a) = ipManager)
  /\ [][\A op \in {"block-ip", "allow-ip", "remove-ip"}, a \in GateAddrs :
          (last.op = op /\ last.status = 200 /\ last.arg = a /\ Mutated(op, a))
            => (ipManager' = ipManager /\ last'.snapshot = last.snapshot)]_vars
  /\ [][(last'.op = "remove-ip" /\ last'.key = ExpectedAdminKey
           /\ last'.arg \in GateAddrs)
          => /\ last'.status = 200
             /\ last'.error = ""
             /\ last'.arg \notin Blocked(ipManager) \cup Allowed(ipManager)
                  => ipManager' = ipManager]_vars

\* a remove of 1.1.1.1, which is in neither set, has reported success next
\* to a policy that lists 9.9.9.9
C15_Witness ==
  /\ last.op = "remove-ip" /\ last.status = 200 /\ last.arg = "1.1.1.1"
  /\ last.snapshot.blockedIPs = <<"9.9.9.9">>
  /\ last.snapshot.allowedIPs = <<>>
  /\ ipManager.blockedIPs = <<"9.9.9.9">>

(***************************************************************************)
(* C16.  Unauthorized admin requests mutate nothing: a request to any of   *)
(* the five admin endpoints whose key is not exactly the configured secret *)
(* is answered 401 'Invalid admin key', whatever its ip or mode field is,  *)
(* and leaves the mode, the blocked set and the allowed set unchanged.     *)
(***************************************************************************)
AdminOps == {"ip-status", "block-ip", "allow-ip", "remove-ip", "set-mode"}

C16_UnauthorizedMutatesNothing ==
  [][(last'.op \in AdminOps /\ last'.key # ExpectedAdminKey)
       => /\ last'.status = 401
          /\ last'.error = ErrAdminKey
          /\ UNCHANGED <<ipManager, usedTransactionIds, pending, outbox>>]_vars

\* a block request without a key has been refused while the policy, in
\* whitelist mode, lists 1.1.1.1 as its only allowed address
C16_Witness ==
  /\ last.op = "block-ip"
  /\ last.key = Absent
  /\ last.status = 401
  /\ ipManager = [blockedIPs |-> <<>>, allowedIPs |-> <<"1.1.1.1">>,
                  whitelistMode |-> TRUE]

(***************************************************************************)
(* C17.  Invalid admin payloads are rejected without mutation: an          *)
(* authorized set-mode whose mode is not "whitelist" or "blacklist", or is *)
(* missing, is answered 400 with the mode error and changes nothing; an    *)
(* authorized block, allow or remove without an ip is answered 400 'IP     *)
(* address required' and changes nothing; a valid set-mode replaces the    *)
(* mode and leaves both sets unchanged.                                    *)
(***************************************************************************)
C17_InvalidPayloadRejected ==
  [][(last'.op \in AdminOps /\ last'.key = ExpectedAdminKey) =>
       /\ (last'.op = "set-mode" /\ last'.arg \notin {"whitelist", "blacklist"})
            => /\ last'.status = 400
               /\ last'.error = ErrMode
               /\ ipManager' = ipManager
       /\ (last'.op = "set-mode" /\ last'.arg \in {"whitelist", "blacklist"})
            => /\ last'.status = 200
               /\ ipManager'.whitelistMode = (last'.arg = "whitelist")
               /\ ipManager'.blockedIPs = ipManager.blockedIPs
               /\ ipManager'.allowedIPs = ipManager.allowedIPs
       /\ (last'.op \in {"block-ip", "allow-ip", "remove-ip"}
             /\ last'.arg = Absent)
            => /\ last'.status = 400
               /\ last'.error = ErrIpRequired
               /\ ipManager' = ipManager]_vars

\* an authorized set-mode to "greylist" has been refused and the gate is
\* still in whitelist mode
C17_Witness ==
  /\ last.op = "set-mode"
  /\ last.key = ExpectedAdminKey
  /\ last.arg = "greylist"
  /\ last.status = 400
  /\ ipManager.whitelistMode

(***************************************************************************)
(* C18.  No partial feedback on a wrong secret: the answer to an admin     *)
(* request with a wrong key, and the state it leaves, do not depend on the *)
(* key, on how many leading characters it shares with the secret, on the   *)
(* policy state or on the request body.  Every such step records, apart    *)
(* from the endpoint and the key presented, one and the same response, and *)
(* changes nothing, so any two of them answer alike.                       *)
(***************************************************************************)
RefusedAdmin ==
  Step("ip-status", "sync", "", Absent, Undefined, "", 401, ErrAdminKey,
       NoId, NoSnapshot)

C18_NoPartialFeedback ==
  [][(last'.op \in AdminOps /\ last'.key # ExpectedAdminKey)
       => /\ [last' EXCEPT !.op = "ip-status", !.key = Absent] = RefusedAdmin
          /\ UNCHANGED <<ipManager, usedTransactionIds, pending, outbox>>]_vars

\* an allow request whose key is the first fifteen characters of the
\* secret has been refused next to a non-empty policy
C18_Witness ==
  /\ last.op = "allow-ip"
  /\ last.key = "splintax_admin_"
  /\ last.status = 401
  /\ last.error = ErrAdminKey
  /\ ipManager.blockedIPs = <<"9.9.9.9">>

(***************************************************************************)
(* C19.  Stage ordering of a checkout or payment request: IP gate, key     *)
(* check, required fields, ledger admission, dispatch.  A request denied   *)
(* by the gate is answered 403 'Access denied from this IP address' with   *)
(* its address, whatever its key and body; one that passes the gate with a *)
(* wrong key is answered 401 'Invalid API key'; one that passes both       *)
(* without an identifier is answered 400 with the missing-fields error,    *)
(* not with a validation error; a validation error is the verdict of       *)
(* validateTransactionId on the ledger.  Each of these answers leaves the  *)
(* ledger, and so the admissibility of every identifier, unchanged and     *)
(* sends nothing; a notification is handed to fetch only in the step that  *)
(* inserts its identifier.                                                 *)
(***************************************************************************)
StageErrors(op) == {ErrDenied, ErrApiKey, FieldsError(op)} \cup ValidationErrors

C19_StageOrder ==
  [][GateChecked =>
       LET l == last'
           denied == ~isIPAllowed(ipManager, l.clientIP)
           verdict == validateTransactionId(l.tid, usedTransactionIds)
       IN /\ denied <=> l.status = 403
          /\ l.status = 403 <=> l.error = ErrDenied
          /\ (~denied /\ l.key # ExpectedApiKey) <=> l.status = 401
          /\ l.status = 401 <=> l.error = ErrApiKey
          /\ (l.status \notin {403, 401} /\ ~Truthy(l.tid))
               => (l.status = 400 /\ l.error = FieldsError(l.op))
          /\ l.error \in ValidationErrors
               => (l.status = 400 /\ ~verdict.valid /\ verdict.error = l.error)
          /\ l.status \in {403, 401, 400}
               => /\ l.error \in StageErrors(l.op)
                  /\ UNCHANGED <<usedTransactionIds, pending, outbox>>
                  /\ l.error = FieldsError(l.op) =>
                       validateTransactionId(l.tid, usedTransactionIds')
                         = verdict
          /\ l.status \notin {403, 401, 400}
               => /\ l.status = 0
                  /\ verdict.valid
                  /\ usedTransactionIds' = usedTransactionIds \cup {verdict.cleanId}
                  /\ outbox' = outbox (+) SetToBag({Notification(l.op, verdict.cleanId)})
          /\ outbox' # outbox
               => \A n \in BagToSet(outbox') :
                    n.id \in usedTransactionIds']_vars

\* a checkout that passed the gate and the key check without all of its
\* fields has been refused; its identifier is not in the ledger, which holds
\* another one, and is still admissible
C19_Witness ==
  /\ last.op = "checkout"
  /\ last.status = 400
  /\ last.error = ErrCheckoutFields
  /\ Truthy(last.tid)
  /\ usedTransactionIds # {}
  /\ validateTransactionId(last.tid, usedTransactionIds).valid

(***************************************************************************)
(* C20.  All webhook endpoints require a valid API key: a request to       *)
(* /api/webhook, /api/webhook/checkout, /api/webhook/payment or            *)
(* /api/webhook/test without the correct x-api-key header is rejected and  *)
(* hands no notification to fetch.                                         *)
(***************************************************************************)
WebhookOps == {"webhook", "checkout", "payment", "test"}

C20_ApiKeyRequired ==
  [][(last'.op \in WebhookOps /\ last'.phase = "sync"
        /\ last'.key # ExpectedApiKey)
       => /\ last'.status \in {400, 401, 403}
          /\ outbox' = outbox
          /\ pending' = pending]_vars

(***************************************************************************)
(* The policy next to every kind of request: the admin endpoints, checkout *)
(* and payment with one identifier, and the two generic webhook endpoints. *)
(***************************************************************************)
PolicyWebhook == Webhook(LedgerKeys)
PolicyTest == TestWebhook(LedgerKeys)
PolicyCheckout == Checkout(Srcs(GateAddrs), LedgerKeys, GateBodies)
PolicyPayment == Payment(Srcs(GateAddrs), LedgerKeys, GateBodies)
PolicyIpStatus == IpStatus(AdminKeys)
PolicyBlockIp == BlockIp(AdminKeys, GateIpArgs)
PolicyAllowIp == AllowIp(AdminKeys, GateIpArgs)
PolicyRemoveIp == RemoveIp(AdminKeys, GateIpArgs)
PolicySetMode == SetModeRequest(AdminKeys, ModeArgs)

PolicyNext ==
  \/ PolicyWebhook
  \/ PolicyTest
  \/ GenericDone
  \/ PolicyCheckout
  \/ PolicyPayment
  \/ AdmissionDone
  \/ PolicyIpStatus
  \/ PolicyBlockIp
  \/ PolicyAllowIp
  \/ PolicyRemoveIp
  \/ PolicySetMode

PolicySpec == Init /\ [][PolicyNext]_vars

(***************************************************************************)
(* C21.  Policy lifecycle and frame: the policy starts in blacklist mode   *)
(* with both sets empty, so that every address is allowed; its sets change *)
(* only in an authorized block, allow or remove with an address, and its   *)
(* mode only in an authorized set-mode with one of the two literals; every *)
(* other request (gate checks, status reads, checkout, payment, generic    *)
(* webhook, rejected admin calls) leaves the policy unchanged; no admin    *)
(* request changes the ledger.                                             *)
(***************************************************************************)
SetOps == {"block-ip", "allow-ip", "remove-ip"}

C21_PolicyFrame ==
  /\ ipManager = InitialPolicy
  /\ \A a \in GateClientAddrs : isIPAllowed(ipManager, a)
  /\ [][/\ (ipManager' # ipManager)
               => /\ last'.key = ExpectedAdminKey
                  /\ last'.status = 200
                  /\ last'.phase = "sync"
        /\ (ipManager'.blockedIPs # ipManager.blockedIPs
              \/ ipManager'.allowedIPs # ipManager.allowedIPs)
               => /\ last'.op \in SetOps
                  /\ last'.arg \in GateAddrs
                  /\ ipManager' = IpMethod(last'.op, ipManager, last'.arg)
        /\ (ipManager'.whitelistMode # ipManager.whitelistMode)
               => /\ last'.op = "set-mode"
                  /\ last'.arg \in {"whitelist", "blacklist"}
        /\ (last'.op \notin SetOps \cup {"set-mode"} \/ last'.status # 200)
               => ipManager' = ipManager
        /\ last'.op \in AdminOps
               => usedTransactionIds' = usedTransactionIds]_vars

\* a generic webhook has been relayed, with an identifier in the ledger,
\* next to a policy that the admin requests before it left in whitelist
\* mode with one blocked address
C21_Witness ==
  /\ last.op = "webhook"
  /\ last.status = 0
  /\ usedTransactionIds # {}
  /\ ipManager = [blockedIPs |-> <<"9.9.9.9">>, allowedIPs |-> <<>>,
                  whitelistMode |-> TRUE]

(***************************************************************************)
(* C22.  Admin responses carry the post-operation snapshot: the status     *)
(* returned by a successful block, allow, remove or set-mode has the mode, *)
(* the blocked addresses and the allowed addresses of the policy right     *)
(* after the mutation, and in every snapshot returned, that of a status    *)
(* read included, blockedCount is the number of blockedIPs and             *)
(* allowedCount the number of allowedIPs.                                  *)
(***************************************************************************)
ModeName(p) == IF p.whitelistMode THEN "whitelist" ELSE "blacklist"

\* snapshot s shows policy p
Shows(s, p) ==
  /\ s.mode = ModeName(p)
  /\ Range(s.blockedIPs) = Blocked(p)
  /\ Range(s.allowedIPs) = Allowed(p)

CountsAgree(s) ==
  /\ s.blockedCount = Len(s.blockedIPs)
  /\ s.blockedCount = Cardinality(Range(s.blockedIPs))
  /\ s.allowedCount = Len(s.allowedIPs)
  /\ s.allowedCount = Cardinality(Range(s.allowedIPs))

C22_PostSnapshot ==
  /\ [](CountsAgree(last.snapshot))
  /\ [][(last'.op \in AdminOps /\ last'.status = 200)
          => /\ Shows(last'.snapshot, ipManager')
             /\ CountsAgree(last'.snapshot)]_vars

\* the reply to the allow that took 9.9.9.9 out of the blocked set shows
\* the sets as that allow left them
C22_Witness ==
  /\ last.op = "allow-ip" /\ last.status = 200 /\ last.arg = "9.9.9.9"
  /\ last.snapshot.mode = "whitelist"
  /\ last.snapshot.blockedCount = 1
  /\ last.snapshot.blockedIPs = <<"1.1.1.1">>
  /\ last.snapshot.allowedCount = 1
  /\ last.snapshot.allowedIPs = <<"9.9.9.9">>

(***************************************************************************)
(* The gate on its own: checkIPAccess as the step that answers 403 or      *)
(* calls next(), recorded with the address sources of the request in the   *)
(* arg field, next to the admin endpoints that set the policy.             *)
(***************************************************************************)
checkIPAccess(srcs) ==
  \E src \in srcs :
    LET clientIP == ResolveClientIP(src) IN
      /\ last' = [Step("check-ip", "sync", clientIP, "", Undefined, "",
                       IF ~isIPAllowed(ipManager, clientIP) THEN 403 ELSE 0,
                       IF ~isIPAllowed(ipManager, clientIP) THEN ErrDenied ELSE "",
                       NoId, NoSnapshot)
                  EXCEPT !.arg = src]
      /\ UNCHANGED <<usedTransactionIds, ipManager, pending, outbox>>

AccessCheck == checkIPAccess(SrcPool)
AccessIpStatus == IpStatus(AdminKeys)
AccessBlockIp == BlockIp(AdminKeys, IpArgs)
AccessAllowIp == AllowIp(AdminKeys, IpArgs)
AccessRemoveIp == RemoveIp(AdminKeys, IpArgs)
AccessSetMode == SetModeRequest(AdminKeys, ModeArgs)

AccessNext ==
  \/ AccessCheck
  \/ AccessIpStatus
  \/ AccessBlockIp
  \/ AccessAllowIp
  \/ AccessRemoveIp
  \/ AccessSetMode

AccessSpec == Init /\ [][AccessNext]_vars

(***************************************************************************)
(* C23.  Client address resolution precedence: the address the gate uses   *)
(* is the x-forwarded-for value when present, else the x-real-ip value     *)
(* when present, else the peer address of the transport, else "Unknown";   *)
(* a lower source is used only when every higher one is absent; the        *)
(* request is answered 403 iff isIPAllowed refuses this address under the  *)
(* current policy, whatever the sources not used hold.                     *)
(***************************************************************************)
Precedence(src) == <<src.xff, src.xri, src.conn, "Unknown">>

\* the first entry of the precedence list that is present
FirstPresent(src) ==
  LET q == Precedence(src)
      i == CHOOSE k \in 1..Len(q) :
             q[k] # Absent /\ \A j \in 1..(k - 1) : q[j] = Absent
  IN q[i]

C23_Resolution ==
  [][last'.op = "check-ip" =>
       LET src == last'.arg IN
         /\ last'.clientIP = FirstPresent(src)
         /\ last'.status = 403 <=> ~isIPAllowed(ipManager, FirstPresent(src))
         /\ last'.status # 403 => last'.status = 0
         /\ UNCHANGED <<ipManager, usedTransactionIds, pending, outbox>>]_vars

\* no x-forwarded-for, x-real-ip 5.6.7.8, peer 1.2.3.4: the request is
\* turned away for 5.6.7.8, the only blocked address
C23_Witness ==
  /\ last.op = "check-ip"
  /\ last.arg.xff = Absent
  /\ last.arg.xri = "5.6.7.8"
  /\ last.arg.conn = "1.2.3.4"
  /\ last.clientIP = "5.6.7.8"
  /\ last.status = 403
  /\ ipManager.blockedIPs = <<"5.6.7.8">>
  /\ ~ipManager.whitelistMode

(***************************************************************************)
(* C24.  Ledger monotonicity: in every step the ledger keeps every         *)
(* identifier it holds, whatever the request is, admin requests and the    *)
(* outcome of a dispatch included; it changes only in an admission, which  *)
(* adds exactly one identifier that was not in it.                         *)
(***************************************************************************)
C24_LedgerMonotone ==
  [][/\ usedTransactionIds \subseteq usedTransactionIds'
     /\ Admitted(last')
          => /\ last'.id \notin usedTransactionIds
             /\ usedTransactionIds' = usedTransactionIds \cup {last'.id}
     /\ usedTransactionIds' # usedTransactionIds
          => /\ Admitted(last')
             /\ Cardinality(usedTransactionIds')
                  = Cardinality(usedTransactionIds) + 1]_vars

\* two identifiers are in the ledger, both dispatches have ended, and an
\* admin has then set the mode
C24_Witness ==
  /\ Cardinality(usedTransactionIds) = 2
  /\ last.op = "set-mode"
  /\ last.status = 200
  /\ BagCardinality(outbox) = 2
  /\ pending = EmptyBag

(***************************************************************************)
(* C25.  Normalization by trimming: the ledger stores and compares the     *)
(* trimmed form.  Two submitted strings with the same trimmed form, when   *)
(* it is not empty, get the same verdict, with the same error or the same  *)
(* identifier, in every ledger state; an admission inserts and returns     *)
(* the trimmed value; a string whose trimmed form is in the ledger is      *)
(* rejected as already used; the 200 response after the dispatch carries   *)
(* the trimmed value.                                                      *)
(***************************************************************************)
LedgerStrings == {v \in LedgerRaws : IsString(v)}

C25_TrimmedIdentity ==
  /\ [](\A v \in LedgerStrings, w \in LedgerStrings :
          (Normalized(v) = Normalized(w) /\ Normalized(v) # <<>>)
            => validateTransactionId(v, usedTransactionIds)
                 = validateTransactionId(w, usedTransactionIds))
  /\ [][(Validated(last') /\ IsString(last'.tid)) =>
          /\ Admitted(last')
               => /\ last'.id = Normalized(last'.tid)
                  /\ usedTransactionIds'
                       = usedTransactionIds \cup {Normalized(last'.tid)}
          /\ Normalized(last'.tid) \in usedTransactionIds
               => Rejected(last', ErrAlreadyUsed)]_vars
  /\ [][(last'.phase = "done" /\ last'.status = 200)
          => /\ last'.id \in usedTransactionIds
             /\ Trim(last'.id) = last'.id]_vars

\* an identifier submitted with white space around it has been rejected as
\* already used: its trimmed form is in the ledger
C25_Witness ==
  /\ Rejected(last, ErrAlreadyUsed)
  /\ last.tid.s # Normalized(last.tid)
  /\ Normalized(last.tid) \in usedTransactionIds

(***************************************************************************)
(* C26.  White space only.                                                 *)
(***************************************************************************)
\* the step validated a string that is white space and nothing else
WhitespaceOnly(l) ==
  /\ Validated(l)
  /\ IsString(l.tid)
  /\ l.tid.s # <<>>
  /\ Normalized(l.tid) = <<>>

\* C26 as stated: trimming precedes the Empty check, so a string whose
\* trimmed form is empty is rejected with Empty, like the empty string and
\* like a value that is not a string
C26_Original ==
  [][WhitespaceOnly(last') => Rejected(last', ErrNotString)]_vars

\* C26, amended: the Empty check precedes trimming: validateTransactionId
\* answers Empty exactly for a value that is not a string and for the
\* empty string as submitted; a string of white space only passes that
\* check, is trimmed to the empty string and is rejected with TooShort
C26_EmptyBeforeTrim ==
  /\ [](\A v \in LedgerRaws :
          validateTransactionId(v, usedTransactionIds) = Invalid(ErrNotString)
            <=> (~IsString(v) \/ v.s = <<>>))
  /\ [][WhitespaceOnly(last') => Rejected(last', ErrTooShort)]_vars

\* a tab followed by a space has been submitted and found too short
C26_Witness ==
  /\ Rejected(last, ErrTooShort)
  /\ IsString(last.tid)
  /\ last.tid.s = <<"\t", " ">>

(***************************************************************************)
(* C27.  Admission is not rolled back when dispatch fails: the step that   *)
(* ends a request with 500 'Failed to send ... notification' leaves the    *)
(* ledger as it is, with the identifier of the failed notification in it;  *)
(* every string whose trimmed form is in the ledger is rejected as already *)
(* used, a retry included; and no step hands to fetch a further            *)
(* notification for an identifier that is in the ledger, so none is        *)
(* delivered for the one whose dispatch failed.                            *)
(***************************************************************************)
C27_NoRollback ==
  /\ [][(last'.op \in AdmissionOps /\ last'.phase = "done")
          => /\ usedTransactionIds' = usedTransactionIds
             /\ outbox' = outbox
             /\ \E n \in BagToSet(pending) :
                  /\ pending' = pending (-) SetToBag({n})
                  /\ n.id \in usedTransactionIds'
             /\ last'.status = 500 => last'.error = ErrSend(last'.op)
             /\ last'.status \in {200, 500}]_vars
  /\ [](\A v \in LedgerStrings :
          Normalized(v) \in usedTransactionIds
            => validateTransactionId(v, usedTransactionIds)
                 = Invalid(ErrAlreadyUsed))
  /\ [][\A x \in usedTransactionIds : SentFor(x)' = SentFor(x)]_vars

\* the dispatch for the only admitted identifier has failed: the request
\* ended with the 500 error and the identifier is in the ledger
C27_Witness ==
  /\ last.op = "checkout"
  /\ last.phase = "done"
  /\ last.status = 500
  /\ last.error = "Failed to send checkout notification"
  /\ pending = EmptyBag
  /\ BagCardinality(outbox) = 1
  /\ usedTransactionIds = {Fill(8)}

(***************************************************************************)
(* C28.  Emptying the allow-set in whitelist mode lifts every restriction: *)
(* when, in whitelist mode, a remove or a block takes the last address out *)
(* of the allow-set, isIPAllowed is true of every address afterwards, the  *)
(* blocked ones and the one just blocked included; in whitelist mode the   *)
(* blocked set has no effect on the decision, in isIPAllowed and in the    *)
(* answer to a checkout or payment request.                                *)
(***************************************************************************)
Unblocked(p) == [p EXCEPT !.blockedIPs = <<>>]

C28_EmptiedWhitelist ==
  /\ [][\A a \in GateAddrs :
          (/\ ipManager.whitelistMode
           /\ ipManager.allowedIPs = <<a>>
           /\ Mutated("remove-ip", a) \/ Mutated("block-ip", a))
            => /\ FailOpen(ipManager')
               /\ \A x \in GateClientAddrs : isIPAllowed(ipManager', x)]_vars
  /\ [](ipManager.whitelistMode
          => \A x \in GateClientAddrs :
               isIPAllowed(ipManager, x) <=> isIPAllowed(Unblocked(ipManager), x))
  /\ [][(GateChecked /\ ipManager.whitelistMode)
          => (last'.status = 403
                <=> ~isIPAllowed(Unblocked(ipManager), last'.clientIP))]_vars

\* the remove of 1.1.1.1 has emptied the allow-set in whitelist mode, and
\* the blocked 9.9.9.9 is let through
C28_Witness ==
  /\ last.op = "remove-ip" /\ last.status = 200 /\ last.arg = "1.1.1.1"
  /\ ipManager = [blockedIPs |-> <<"9.9.9.9">>, allowedIPs |-> <<>>,
                  whitelistMode |-> TRUE]
  /\ isIPAllowed(ipManager, "9.9.9.9")

(***************************************************************************)
(* C29.  Admin operations bypass the IP gate, so the policy can always be  *)
(* recovered.  No admin request is answered by the gate, and one with the  *)
(* correct key and a valid payload succeeds in every policy state: every   *)
(* block, allow and remove of an address, either set-mode and the status   *)
(* read are possible in every reachable state, the states that deny every  *)
(* address of the pool included.  In every state but the initial policy    *)
(* some successful admin request brings the policy strictly closer to it,  *)
(* so the initial policy is reachable in finitely many admin requests.     *)
(***************************************************************************)
\* the distance of a policy from the initial one
Listed(p) ==
  Len(p.blockedIPs) + Len(p.allowedIPs) + (IF p.whitelistMode THEN 1 ELSE 0)

AdminRequest ==
  GateIpStatus \/ GateBlockIp \/ GateAllowIp \/ GateRemoveIp \/ GateSetMode

RecoveryStep ==
  /\ AdminRequest
  /\ last'.key = ExpectedAdminKey
  /\ last'.status = 200
  /\ Listed(ipManager') < Listed(ipManager)

ValidPayload(l) ==
  /\ l.op \in SetOps => l.arg # Absent
  /\ l.op = "set-mode" => l.arg \in {"whitelist", "blacklist"}

C29_Recoverable ==
  /\ [](/\ \A op \in SetOps, a \in GateAddrs :
             ENABLED (AdminRequest /\ Mutated(op, a)
                        /\ ipManager' = IpMethod(op, ipManager, a))
        /\ \A m \in {"whitelist", "blacklist"} :
             ENABLED (AdminRequest /\ Mutated("set-mode", m)
                        /\ ipManager' = setMode(ipManager, m))
        /\ ENABLED (AdminRequest /\ last'.op = "ip-status"
                      /\ last'.status = 200)
        /\ Listed(ipManager) = 0 <=> ipManager = InitialPolicy
        /\ ipManager # InitialPolicy => ENABLED RecoveryStep)
  /\ [][last'.op \in AdminOps
          => /\ last'.status # 403
             /\ (last'.key = ExpectedAdminKey /\ ValidPayload(last'))
                  => last'.status = 200]_vars

\* a status read has succeeded in blacklist mode while both addresses of
\* the pool are blocked
C29_Witness ==
  /\ last.op = "ip-status" /\ last.status = 200
  /\ last.snapshot.blockedCount = 2
  /\ Blocked(ipManager) = GateAddrs
  /\ ~ipManager.whitelistMode
  /\ \A a \in GateAddrs : ~isIPAllowed(ipManager, a)

(***************************************************************************)
(* The admin tool's 'Test IP': the answer is read from the terminal, then  *)
(* tested against ipRegex, and the verdict is computed from the status     *)
(* that GET /api/admin/ip-status returned.                                 *)
(***************************************************************************)
\* the characters of the addresses that the tool is asked about
Spell ==
  [a \in {"9.9.9.9", "1.1.1.1", "Unknown", "256.1.1.1", "::ffff:9.9.9.9"} |->
     CASE a = "9.9.9.9" -> <<"9", ".", "9", ".", "9", ".", "9">>
       [] a = "1.1.1.1" -> <<"1", ".", "1", ".", "1", ".", "1">>
       [] a = "Unknown" -> <<"U", "n", "k", "n", "o", "w", "n">>
       [] a = "256.1.1.1" -> <<"2", "5", "6", ".", "1", ".", "1", ".", "1">>
       [] a = "::ffff:9.9.9.9" ->
            <<":", ":", "f", "f", "f", "f", ":", "9", ".", "9", ".", "9", ".", "9">>]

\* 25[0-5]|2[0-4][0-9]|[01]?[0-9][0-9]?
Octet(s) ==
  /\ Len(s) \in 1..3
  /\ \A i \in 1..Len(s) : s[i] \in Digit
  /\ Len(s) = 3 =>
       \/ s[1] \in {"0", "1"}
       \/ s[1] = "2" /\ s[2] \in {"0", "1", "2", "3", "4"}
       \/ s[1] = "2" /\ s[2] = "5" /\ s[3] \in {"0", "1", "2", "3", "4", "5"}

\* ipRegex.test: three octets followed by a dot each, then a fourth octet
MatchesIpRegex(s) ==
  LET dots == {i \in 1..Len(s) : s[i] = "."} IN
    /\ Cardinality(dots) = 3
    /\ LET d1 == CHOOSE i \in dots : \A j \in dots : i <= j
           d3 == CHOOSE i \in dots : \A j \in dots : i >= j
           d2 == CHOOSE i \in dots : i # d1 /\ i # d3
       IN /\ Octet(SubSeq(s, 1, d1 - 1))
          /\ Octet(SubSeq(s, d1 + 1, d2 - 1))
          /\ Octet(SubSeq(s, d2 + 1, d3 - 1))
          /\ Octet(SubSeq(s, d3 + 1, Len(s)))

NoVerdict == "Invalid IP address format"
WouldBeAllowed == "ALLOWED"
WouldBeBlocked == "BLOCKED"

\* Array.prototype.includes
Includes(q, x) == \E i \in 1..Len(q) : q[i] = x

\* variant: an empty allow list does not let the address through
testIP_NoFailOpen(status, ip) ==
  IF ~MatchesIpRegex(Spell[ip]) THEN NoVerdict
  ELSE LET allowed ==
             IF status.mode = "whitelist"
             THEN Includes(status.allowedIPs, ip)
             ELSE ~Includes(status.blockedIPs, ip)
       IN IF allowed THEN WouldBeAllowed ELSE WouldBeBlocked

testIP(status, ip) ==
  IF ~MatchesIpRegex(Spell[ip]) THEN NoVerdict
  ELSE LET allowed ==
             IF status.mode = "whitelist"
             THEN Includes(status.allowedIPs, ip) \/ Len(status.allowedIPs) = 0
             ELSE ~Includes(status.blockedIPs, ip)
       IN IF allowed THEN WouldBeAllowed ELSE WouldBeBlocked

(***************************************************************************)
(* C30.  The admin tool's prediction and the gate.                         *)
(***************************************************************************)
CliAddrs == DOMAIN Spell

\* the gate's decision in the words of the tool
Verdict(p, a) == IF isIPAllowed(p, a) THEN WouldBeAllowed ELSE WouldBeBlocked

\* C30 as stated: for every status snapshot and every address, the verdict
\* that testIP computes from the snapshot is what isIPAllowed returns for
\* the address in the policy state the snapshot was taken from
C30_Original ==
  [][(last'.op = "ip-status" /\ last'.status = 200)
       => \A a \in CliAddrs :
            testIP(last'.snapshot, a) = Verdict(ipManager, a)]_vars

\* C30, amended: for every status snapshot and every address written as
\* four decimal octets, the verdict that testIP computes from the snapshot
\* is what isIPAllowed returns for the address in the policy state the
\* snapshot was taken from; for any other address, such as "Unknown" or an
\* IPv6 peer address, which the gate does decide, testIP reports an invalid
\* format and computes no verdict
C30_TestIpAgrees ==
  /\ [](\A a \in CliAddrs :
          testIP(getStatus(ipManager), a)
            = IF MatchesIpRegex(Spell[a]) THEN Verdict(ipManager, a)
              ELSE NoVerdict)
  /\ [][(last'.op = "ip-status" /\ last'.status = 200)
          => \A a \in CliAddrs :
               testIP(last'.snapshot, a)
                 = IF MatchesIpRegex(Spell[a]) THEN Verdict(ipManager, a)
                   ELSE NoVerdict]_vars
  /\ MatchesIpRegex(Spell["9.9.9.9"])
  /\ ~MatchesIpRegex(Spell["256.1.1.1"])
  /\ ~MatchesIpRegex(Spell["Unknown"])

\* the status read in whitelist mode lists 1.1.1.1 as the only allowed
\* address: the tool predicts that 9.9.9.9 is blocked, and the gate
\* refuses it
C30_Witness ==
  /\ last.op = "ip-status" /\ last.status = 200
  /\ last.snapshot.mode = "whitelist"
  /\ last.snapshot.allowedIPs = <<"1.1.1.1">>
  /\ testIP(last.snapshot, "9.9.9.9") = WouldBeBlocked
  /\ testIP(last.snapshot, "1.1.1.1") = WouldBeAllowed
  /\ ~isIPAllowed(ipManager, "9.9.9.9")

=============================================================================
